---- MODULE Spec2Model ----
(***************************************************************************)
(* Model of analyze_pos.py: the part-of-speech report over three projects  *)
(* of word-definition JSON files.                                          *)
(*                                                                         *)
(* Strings are tuples of one-character strings, so that strip(), lower(),  *)
(* endswith(), substring search and sorted() are computed character by     *)
(* character.  A dict (dict, defaultdict, Counter) is the sequence of its  *)
(* items [k |-> key, v |-> value] in insertion order.                      *)
(***************************************************************************)
EXTENDS Integers, Sequences, FiniteSets, TLC

(***************************************************************************)
(* Bounds                                                                  *)
(***************************************************************************)
\* Files read in one run of the general scenario, over the three projects.
MaxFiles == 3
\* Files read in one run of the examples scenario.
MaxExampleFiles == 6

(***************************************************************************)
(* Strings                                                                 *)
(***************************************************************************)
\* The characters used, in increasing code point order.
CharOrder ==
    << "\t", " ", ",", ".", "7", "N", "P", "V",
       "a", "b", "c", "d", "e", "f", "g", "h", "i", "j", "k", "l", "m",
       "n", "o", "p", "q", "r", "s", "t", "u", "v", "w", "x", "y", "z" >>

Ord(c) == CHOOSE i \in 1..Len(CharOrder) : CharOrder[i] = c

\* str.strip() without arguments removes these characters.
Whitespace == {" ", "\t"}

\* str.lower(), one character.
LowerChar(c) ==
    CASE c = "N" -> "n"
      [] c = "P" -> "p"
      [] c = "V" -> "v"
      [] OTHER   -> c

Lower(s) == [i \in 1..Len(s) |-> LowerChar(s[i])]

RECURSIVE LStrip(_)
LStrip(s) ==
    IF s # <<>> /\ Head(s) \in Whitespace THEN LStrip(Tail(s)) ELSE s

RECURSIVE RStrip(_)
RStrip(s) ==
    IF s # <<>> /\ s[Len(s)] \in Whitespace
    THEN RStrip(SubSeq(s, 1, Len(s) - 1))
    ELSE s

\* str.strip()
Strip(s) == RStrip(LStrip(s))

\* str.endswith(suffix)
EndsWith(s, suffix) ==
    /\ Len(suffix) <= Len(s)
    /\ SubSeq(s, Len(s) - Len(suffix) + 1, Len(s)) = suffix

\* `sub in s` for strings
Contains(s, sub) ==
    \E i \in 0..(Len(s) - Len(sub)) : SubSeq(s, i + 1, i + Len(sub)) = sub

\* s < t in Python's string order: code point by code point, a proper
\* prefix first.
RECURSIVE StrLess(_, _)
StrLess(s, t) ==
    IF t = <<>> THEN FALSE
    ELSE IF s = <<>> THEN TRUE
    ELSE IF Head(s) # Head(t) THEN Ord(Head(s)) < Ord(Head(t))
    ELSE StrLess(Tail(s), Tail(t))

\* sorted(strings): the strings of a set in increasing order.
RECURSIVE Sorted(_)
Sorted(S) ==
    IF S = {} THEN <<>>
    ELSE LET m == CHOOSE x \in S : \A y \in S \ {x} : StrLess(x, y)
         IN  <<m>> \o Sorted(S \ {m})

(***************************************************************************)
(* dict, Counter, defaultdict                                              *)
(***************************************************************************)
EmptyDict == <<>>

Keys(d) == [i \in 1..Len(d) |-> d[i].k]

KeySet(d) == {d[i].k : i \in 1..Len(d)}

\* `k in d`
Has(d, k) == k \in KeySet(d)

IndexOf(d, k) == CHOOSE i \in 1..Len(d) : d[i].k = k

\* d[k] for a key that is present
Get(d, k) == d[IndexOf(d, k)].v

\* d[k] = v: a new key goes last, an old key keeps its place.
SetItem(d, k, v) ==
    IF Has(d, k)
    THEN [d EXCEPT ![IndexOf(d, k)] = [k |-> k, v |-> v]]
    ELSE Append(d, [k |-> k, v |-> v])

\* Counter.__getitem__: 0 for a missing key, and the key is not inserted.
CounterGet(c, k) == IF Has(c, k) THEN Get(c, k) ELSE 0

\* c[k] += 1
CounterIncr(c, k) == SetItem(c, k, CounterGet(c, k) + 1)

\* Counter.update(other): adds other's counts, in other's order.
RECURSIVE CounterUpdate(_, _)
CounterUpdate(c, other) ==
    IF other = <<>> THEN c
    ELSE CounterUpdate(SetItem(c, Head(other).k, CounterGet(c, Head(other).k) + Head(other).v),
                       Tail(other))

\* sum(c.values())
RECURSIVE SumValues(_)
SumValues(c) == IF c = <<>> THEN 0 ELSE Head(c).v + SumValues(Tail(c))

\* The dict after evaluating d[k] on a defaultdict: a missing key is
\* inserted with the factory's value.
DefaultDictTouch(d, k, fresh) == IF Has(d, k) THEN d ELSE Append(d, [k |-> k, v |-> fresh])

\* Insert item x into the sequence s, sorted by decreasing count, after the
\* items of equal count (a stable sort).
RECURSIVE InsertByCount(_, _)
InsertByCount(s, x) ==
    IF s = <<>> THEN <<x>>
    ELSE IF Head(s).v >= x.v THEN <<Head(s)>> \o InsertByCount(Tail(s), x)
    ELSE <<x>> \o s

\* Counter.most_common(): items by decreasing count, ties in insertion order.
RECURSIVE MostCommon(_)
MostCommon(c) ==
    IF c = <<>> THEN <<>>
    ELSE InsertByCount(MostCommon(SubSeq(c, 1, Len(c) - 1)), c[Len(c)])

\* s[:n] without the slice.
TakeAll(s, n) == s

\* s[:n]
Take(s, n) == SubSeq(s, 1, IF Len(s) < n THEN Len(s) ELSE n)

(***************************************************************************)
(* JSON values and files                                                   *)
(***************************************************************************)
\* A JSON value as far as the script looks at it: its type and its text.
Absent == [t |-> "absent", v |-> <<>>]
Null == [t |-> "null", v |-> <<>>]
Str(s) == [t |-> "str", v |-> s]
Num(s) == [t |-> "num", v |-> s]

\* bool(x) of what dict.get returned (None for an absent key or a null).
Truthy(x) ==
    CASE x.t = "str" -> x.v # <<>>
      [] x.t = "num" -> x.v # <<"0">>
      [] OTHER       -> FALSE

\* An element of the data list: an object with (or without) partOfSpeech,
\* or a value that is not an object.
Def(pos) == [t |-> "object", pos |-> pos]
NotAnObject == [t |-> "number", pos |-> Absent]

\* A file: how open()/read() ends, the top-level JSON value, and the word
\* and data members of a top-level object.
File(io, top, word, dataT, items) ==
    [io |-> io, top |-> top, word |-> word, data |-> [t |-> dataT, items |-> items]]

ObjectFile(word, items) == File("ok", "object", word, "array", items)

S_noun == <<"n", "o", "u", "n">>
S_verb == <<"v", "e", "r", "b">>
S_NounSp == <<"N", "o", "u", "n", " ">>
S_Noun == <<"N", "o", "u", "n">>
S_nounDot == <<"n", "o", "u", "n", ".">>
S_PhrasalVerb == <<"P", "h", "r", "a", "s", "a", "l", " ", "V", "e", "r", "b">>
S_phrasalVerb == <<"p", "h", "r", "a", "s", "a", "l", " ", "v", "e", "r", "b">>
S_blank == <<" ", "\t">>
S_twoSpaces == <<"a", " ", " ", "b", ",">>
S_unknown == <<"u", "n", "k", "n", "o", "w", "n">>

\* {"word":"x","data":[{"partOfSpeech":"noun"},{"partOfSpeech":"verb"}]}
FileNounVerb == ObjectFile(Str(<<"x">>), <<Def(Str(S_noun)), Def(Str(S_verb))>>)
\* {"word":"y","data":[{"partOfSpeech":"Noun "},{"partOfSpeech":"noun."},
\*                     {"partOfSpeech":"Phrasal Verb"},{},{"partOfSpeech":""}]}
FileVariants ==
    ObjectFile(Str(<<"y">>),
               <<Def(Str(S_NounSp)), Def(Str(S_nounDot)), Def(Str(S_PhrasalVerb)),
                 Def(Absent), Def(Str(<<>>))>>)
\* {"data":[{"partOfSpeech":" \t"},{"partOfSpeech":"phrasal verb"},
\*          {"partOfSpeech":"a  b,"},{"partOfSpeech":null}]}
FileBlank ==
    ObjectFile(Absent,
               <<Def(Str(S_blank)), Def(Str(S_phrasalVerb)), Def(Str(S_twoSpaces)),
                 Def(Null)>>)
\* not JSON
FileInvalid == File("ok", "invalid", Absent, "absent", <<>>)
\* removed between the directory walk and open()
FileVanished == File("FileNotFoundError", "invalid", Absent, "absent", <<>>)
\* {"word":"z"}
FileNoData == File("ok", "object", Str(<<"z">>), "absent", <<>>)
\* open() is refused
FileUnreadable == File("PermissionError", "invalid", Absent, "absent", <<>>)
\* not UTF-8
FileNotUtf8 == File("UnicodeDecodeError", "invalid", Absent, "absent", <<>>)
\* [7]
FileTopArray == File("ok", "array", Absent, "absent", <<>>)
\* {"word":"w","data":[{"partOfSpeech":"verb"},7]}
FileBadElement == ObjectFile(Str(<<"w">>), <<Def(Str(S_verb)), NotAnObject>>)
\* {"word":"v","data":[{"partOfSpeech":7}]}
FileBadPos == ObjectFile(Str(<<"v">>), <<Def(Num(<<"7">>))>>)
\* {"word":7,"data":[{"partOfSpeech":"verb"}]}
FileNumWord == ObjectFile(Num(<<"7">>), <<Def(Str(S_verb))>>)
\* {"word":"u","data":null}
FileNullData == File("ok", "object", Str(<<"u">>), "null", <<>>)

GeneralFiles ==
    { FileNounVerb, FileVariants, FileBlank, FileInvalid, FileVanished, FileNoData,
      FileUnreadable, FileNotUtf8, FileTopArray, FileBadElement, FileBadPos,
      FileNullData, FileNumWord }

\* Words of the examples scenario, in the order the files supply them.
WordSupply == <<"m", "c", "x", "a", "t", "f", "q", "b", "k">>

WordAt(n) == <<WordSupply[((n - 1) % Len(WordSupply)) + 1]>>

\* The n-th file of an examples run: a new word or the first word again
\* under "noun", or a new word under "verb".
ExampleFiles(n) ==
    { ObjectFile(Str(WordAt(n)), <<Def(Str(S_noun))>>),
      ObjectFile(Str(WordAt(1)), <<Def(Str(S_noun))>>),
      ObjectFile(Str(WordAt(n)), <<Def(Str(S_verb))>>) }

(***************************************************************************)
(* analyze_project: one file                                               *)
(***************************************************************************)
\* The except clause without JSONDecodeError.
CaughtWithoutJson == {"FileNotFoundError", "KeyError"}

\* The exceptions the except clause names.
Caught == {"JSONDecodeError", "FileNotFoundError", "KeyError"}

\* word = data.get('word', 'unknown')
WordOf(f) == IF f.word.t = "absent" THEN Str(S_unknown) ELSE f.word

\* The body of `for definition in definitions`, from element i on.
\* st = [pos_data, pos_counts, exc].
RECURSIVE ProcessDefinitions(_, _, _, _, _)
ProcessDefinitions(items, i, word, path, st) ==
    IF i > Len(items) THEN st
    ELSE LET definition == items[i]
             pos == definition.pos
         IN  IF definition.t # "object"
             THEN [st EXCEPT !.exc = "AttributeError"]
             ELSE IF ~Truthy(pos)
             THEN ProcessDefinitions(items, i + 1, word, path, st)
             ELSE IF pos.t # "str"
             THEN [st EXCEPT !.exc = "AttributeError"]
             ELSE LET key == Strip(pos.v)
                      pd  == DefaultDictTouch(st.pos_data, key, <<>>)
                  IN  ProcessDefinitions(items, i + 1, word, path,
                          [st EXCEPT !.pos_data = SetItem(pd, key, Append(Get(pd, key), <<word, path>>)),
                                     !.pos_counts = CounterIncr(st.pos_counts, key)])

\* The try block for one file.
ProcessFile(f, path, pd, pc0) ==
    LET st == [pos_data |-> pd, pos_counts |-> pc0, exc |-> "none"]
    IN  IF f.io # "ok" THEN [st EXCEPT !.exc = f.io]
        ELSE IF f.top = "invalid" THEN [st EXCEPT !.exc = "JSONDecodeError"]
        ELSE IF f.top # "object" THEN [st EXCEPT !.exc = "AttributeError"]
        ELSE IF f.data.t = "null" THEN [st EXCEPT !.exc = "TypeError"]
        ELSE ProcessDefinitions(f.data.items, 1, WordOf(f), path, st)

(***************************************************************************)
(* main: state                                                             *)
(***************************************************************************)
\* projects.keys(), in insertion order.
ProjectOrder == <<"occasional-wotd", "wordbun", "wordbug">>

Projects == {ProjectOrder[i] : i \in 1..Len(ProjectOrder)}

VARIABLES
    scenario,           \* which files the file system may hold
    root,               \* per project: "unseen", "missing" or "present"
    tree,               \* per project: the files read so far, in order
    used,               \* files read so far in this run
    pc,                 \* position in main
    proj,               \* index in ProjectOrder of the current project
    json_files,         \* len(json_files) of the current analyze_project call
    fidx,               \* index of the next file of json_files
    pos_data,           \* analyze_project: pos -> [(word, file)]
    pos_counts,         \* analyze_project: Counter
    all_pos_data,       \* pos -> project -> [(word, file)]
    all_pos_counts,     \* project -> Counter
    global_pos_counts,  \* Counter
    warnings,           \* the "Warning: ... does not exist" lines, by project
    errors,             \* the "Error processing ..." lines: [file, exc]
    processing,         \* the "Processing n JSON files..." lines: [project, n]
    report,             \* the report sections printed so far
    exception           \* the exception that ended the process, or "none"

vars == << scenario, root, tree, used, pc, proj, json_files, fidx, pos_data,
           pos_counts, all_pos_data, all_pos_counts, global_pos_counts,
           warnings, errors, processing, report, exception >>

input == << scenario, root, tree, used >>
locals == << json_files, fidx, pos_data, pos_counts >>
aggregate == << all_pos_data, all_pos_counts, global_pos_counts >>
printed == << warnings, errors, processing >>

FileBudget == IF scenario = "examples" THEN MaxExampleFiles ELSE MaxFiles

FilePool == IF scenario = "examples" THEN ExampleFiles(used + 1) ELSE GeneralFiles

InitWith(s) ==
    /\ scenario = s
    /\ root = [p \in Projects |-> "unseen"]
    /\ tree = [p \in Projects |-> <<>>]
    /\ used = 0
    /\ pc = "loop"
    /\ proj = 1
    /\ json_files = 0
    /\ fidx = 1
    /\ pos_data = EmptyDict
    /\ pos_counts = EmptyDict
    /\ all_pos_data = EmptyDict
    /\ all_pos_counts = EmptyDict
    /\ global_pos_counts = EmptyDict
    /\ warnings = <<>>
    /\ errors = <<>>
    /\ processing = <<>>
    /\ report = <<>>
    /\ exception = "none"

Init == InitWith("general")

InitExamples == InitWith("examples")

(***************************************************************************)
(* analyze_project                                                         *)
(***************************************************************************)
\* A missing root that ends the run instead of returning.
MissingRootFatal ==
    /\ pc = "loop"
    /\ root' = [root EXCEPT ![ProjectOrder[proj]] = "missing"]
    /\ warnings' = Append(warnings, ProjectOrder[proj])
    /\ pc' = "aborted"
    /\ exception' = "SystemExit"
    /\ UNCHANGED << scenario, tree, used, proj, locals, aggregate, errors,
                    processing, report >>

\* The call with a root that does not exist: warn, return the empty pair.
MissingRoot ==
    /\ pc = "loop"
    /\ root' = [root EXCEPT ![ProjectOrder[proj]] = "missing"]
    /\ warnings' = Append(warnings, ProjectOrder[proj])
    /\ pos_data' = EmptyDict
    /\ pos_counts' = EmptyDict
    /\ json_files' = 0
    /\ fidx' = 1
    /\ pc' = "merge"
    /\ UNCHANGED << scenario, tree, used, proj, aggregate, errors, processing,
                    report, exception >>

\* The call with a root that exists: list the files below it.
ListFiles ==
    /\ pc = "loop"
    /\ \E n \in 0..(FileBudget - used) :
          /\ json_files' = n
          /\ processing' = Append(processing, [project |-> ProjectOrder[proj], n |-> n])
    /\ root' = [root EXCEPT ![ProjectOrder[proj]] = "present"]
    /\ pos_data' = EmptyDict
    /\ pos_counts' = EmptyDict
    /\ fidx' = 1
    /\ pc' = "files"
    /\ UNCHANGED << scenario, tree, used, proj, aggregate, warnings, errors,
                    report, exception >>

\* One iteration of `for json_file in json_files`.
ReadFile ==
    /\ pc = "files"
    /\ fidx <= json_files
    /\ \E f \in FilePool :
          LET name == ProjectOrder[proj]
              path == <<proj, fidx>>
              st   == ProcessFile(f, path, pos_data, pos_counts)
          IN  /\ tree' = [tree EXCEPT ![name] = Append(@, f)]
              /\ pos_data' = st.pos_data
              /\ pos_counts' = st.pos_counts
              /\ IF st.exc = "none"
                 THEN /\ fidx' = fidx + 1
                      /\ UNCHANGED << pc, errors, exception >>
                 ELSE IF st.exc \in Caught
                 THEN /\ errors' = Append(errors, [file |-> path, exc |-> st.exc])
                      /\ fidx' = fidx + 1
                      /\ UNCHANGED << pc, exception >>
                 ELSE /\ pc' = "aborted"
                      /\ exception' = st.exc
                      /\ UNCHANGED << fidx, errors >>
    /\ used' = used + 1
    /\ UNCHANGED << scenario, root, proj, json_files, aggregate, warnings,
                    processing, report >>

\* `return pos_data, pos_counts` after the last file.
Return ==
    /\ pc = "files"
    /\ fidx > json_files
    /\ pc' = "merge"
    /\ UNCHANGED << input, proj, locals, aggregate, printed, report, exception >>

(***************************************************************************)
(* main: the project loop                                                  *)
(***************************************************************************)
\* for pos, examples in pos_data.items(): all_pos_data[pos][project_name] = examples
RECURSIVE StoreExamples(_, _, _)
StoreExamples(apd, pd, name) ==
    IF pd = <<>> THEN apd
    ELSE LET pos == Head(pd).k
             d1  == DefaultDictTouch(apd, pos, EmptyDict)
         IN  StoreExamples(SetItem(d1, pos, SetItem(Get(d1, pos), name, Head(pd).v)),
                           Tail(pd), name)

\* dict.update instead of Counter.update: the counts replace, not add.
RECURSIVE MergeCountsOverwrite(_, _)
MergeCountsOverwrite(g, c) ==
    IF c = <<>> THEN g
    ELSE MergeCountsOverwrite(SetItem(g, Head(c).k, Head(c).v), Tail(c))

\* global_pos_counts.update(pos_counts)
MergeCounts(g, c) == CounterUpdate(g, c)

\* The loop body after the call.
Merge ==
    /\ pc = "merge"
    /\ all_pos_counts' = SetItem(all_pos_counts, ProjectOrder[proj], pos_counts)
    /\ global_pos_counts' = MergeCounts(global_pos_counts, pos_counts)
    /\ all_pos_data' = StoreExamples(all_pos_data, pos_data, ProjectOrder[proj])
    /\ proj' = proj + 1
    /\ pc' = IF proj = Len(ProjectOrder) THEN "sec1" ELSE "loop"
    /\ UNCHANGED << input, locals, printed, report, exception >>

(***************************************************************************)
(* main: the report                                                        *)
(***************************************************************************)
\* The dict after evaluating all_pos_counts[name] for the names of a sequence.
RECURSIVE TouchCounts(_, _)
TouchCounts(apc, names) ==
    IF names = <<>> THEN apc
    ELSE TouchCounts(DefaultDictTouch(apc, Head(names), EmptyDict), Tail(names))

\* all_pos_counts[name], after the lookup has inserted a missing name.
CountsOf(apc, name) == Get(DefaultDictTouch(apc, name, EmptyDict), name)

\* Section 1: the number of keys and the most_common() lines.
Sec1 ==
    /\ pc = "sec1"
    /\ report' = Append(report, [n |-> Len(global_pos_counts),
                                 lines |-> MostCommon(global_pos_counts)])
    /\ pc' = "sec2"
    /\ UNCHANGED << input, proj, locals, aggregate, printed, exception >>

\* Section 2, one project.
Breakdown(apc, name) ==
    LET counts == CountsOf(apc, name)
    IN  [project |-> name, total |-> SumValues(counts), unique |-> Len(counts),
         lines |-> MostCommon(counts)]

Sec2 ==
    /\ pc = "sec2"
    /\ report' = Append(report, [i \in 1..Len(ProjectOrder) |->
                                    Breakdown(all_pos_counts, ProjectOrder[i])])
    /\ all_pos_counts' = TouchCounts(all_pos_counts, ProjectOrder)
    /\ pc' = "sec3"
    /\ UNCHANGED << input, proj, locals, all_pos_data, global_pos_counts, printed,
                    exception >>

\* pos.endswith('.') or pos.endswith(',') or '  ' in pos
FormattingIssue(pos) ==
    \/ EndsWith(pos, <<".">>)
    \/ EndsWith(pos, <<",">>)
    \/ Contains(pos, <<" ", " ">>)

SpecializedWords ==
    << <<"t", "r", "a", "n", "s", "i", "t", "i", "v", "e">>,
       <<"i", "n", "t", "r", "a", "n", "s", "i", "t", "i", "v", "e">>,
       <<"a", "u", "x", "i", "l", "i", "a", "r", "y">>,
       <<"m", "o", "d", "a", "l">>,
       <<"p", "h", "r", "a", "s", "a", "l">>,
       <<"d", "e", "f", "i", "n", "i", "t", "e">>,
       <<"i", "n", "d", "e", "f", "i", "n", "i", "t", "e">> >>

\* The test without .lower().
SpecializedCaseSensitive(pos) ==
    \E i \in 1..Len(SpecializedWords) : Contains(pos, SpecializedWords[i])

\* any(word in pos.lower() for word in [...])
Specialized(pos) ==
    \E i \in 1..Len(SpecializedWords) : Contains(Lower(pos), SpecializedWords[i])

\* The printed lines for a list of keys: each key with global_pos_counts[pos].
Listed(keys, g) ==
    [i \in 1..Len(keys) |-> [pos |-> keys[i], count |-> CounterGet(g, keys[i])]]

\* Section 3.
Sec3 ==
    /\ pc = "sec3"
    /\ LET keys == Sorted(KeySet(global_pos_counts))
       IN  report' = Append(report,
               [formatting_issues |-> Listed(SelectSeq(keys, FormattingIssue), global_pos_counts),
                specialized_pos |-> Listed(SelectSeq(keys, Specialized), global_pos_counts)])
    /\ pc' = "sec4"
    /\ UNCHANGED << input, proj, locals, aggregate, printed, exception >>

TopN == 20
SliceLen == 3
MaxExamples == 5

\* The lookup without its guard.
HasExamplesUnguarded(apd, pos, name) == TRUE

\* pos in all_pos_data and project_name in all_pos_data[pos]
HasExamples(apd, pos, name) == Has(apd, pos) /\ Has(Get(apd, pos), name)

\* The dict after evaluating all_pos_data[pos][project_name].
TouchExamples(apd, pos, name) ==
    LET d1 == DefaultDictTouch(apd, pos, EmptyDict)
    IN  SetItem(d1, pos, DefaultDictTouch(Get(d1, pos), name, <<>>))

\* for word, _ in entries: add the word, stop at MaxExamples words.
RECURSIVE AddWords(_, _)
AddWords(entries, words) ==
    IF entries = <<>> THEN words
    ELSE LET w == words \cup {Head(entries)[1]}
         IN  IF Cardinality(w) >= MaxExamples THEN w ELSE AddWords(Tail(entries), w)

\* The loop over the projects from index j on; st = [words, apd].
RECURSIVE CollectExamples(_, _, _)
CollectExamples(pos, j, st) ==
    IF j > Len(ProjectOrder) THEN st
    ELSE IF ~HasExamples(st.apd, pos, ProjectOrder[j])
    THEN CollectExamples(pos, j + 1, st)
    ELSE LET apd1  == TouchExamples(st.apd, pos, ProjectOrder[j])
             words == AddWords(Take(Get(Get(apd1, pos), ProjectOrder[j]), SliceLen),
                               st.words)
         IN  IF Cardinality(words) >= MaxExamples
             THEN [words |-> words, apd |-> apd1]
             ELSE CollectExamples(pos, j + 1, [words |-> words, apd |-> apd1])

\* list(example_words)[:5]: a set has no order, so any five; the loop above
\* never collects more than five.
FirstFive(words) ==
    IF Cardinality(words) <= MaxExamples THEN words
    ELSE CHOOSE T \in SUBSET words : Cardinality(T) = MaxExamples

\* The "Projects:" line: the projects whose Counter has the key.
RECURSIVE ProjectsWithPos(_, _, _)
ProjectsWithPos(apc, pos, names) ==
    IF names = <<>> THEN <<>>
    ELSE (IF Has(CountsOf(apc, Head(names)), pos)
          THEN <<[project |-> Head(names),
                  count |-> CounterGet(CountsOf(apc, Head(names)), pos)]>>
          ELSE <<>>) \o ProjectsWithPos(apc, pos, Tail(names))

\* Section 4 from the i-th of the top keys on; joining words that are not
\* all strings is a TypeError, raised after the blocks before it are printed.
\* st = [blocks, apd, apc, exc].
RECURSIVE ExampleBlocks(_, _, _)
ExampleBlocks(top, i, st) ==
    IF i > Len(top) THEN st
    ELSE LET pos   == top[i].k
             got   == CollectExamples(pos, 1, [words |-> {}, apd |-> st.apd])
             shown == FirstFive(got.words)
         IN  IF \E w \in shown : w.t # "str"
             THEN [st EXCEPT !.apd = got.apd, !.exc = "TypeError"]
             ELSE ExampleBlocks(top, i + 1,
                      [st EXCEPT
                          !.blocks = Append(@, [pos |-> pos,
                                                count |-> CounterGet(global_pos_counts, pos),
                                                examples |-> Sorted({w.v : w \in shown}),
                                                projects |-> ProjectsWithPos(st.apc, pos, ProjectOrder)]),
                          !.apd = got.apd,
                          !.apc = TouchCounts(st.apc, ProjectOrder)])

Sec4 ==
    /\ pc = "sec4"
    /\ LET st == ExampleBlocks(Take(MostCommon(global_pos_counts), TopN), 1,
                               [blocks |-> <<>>, apd |-> all_pos_data,
                                apc |-> all_pos_counts, exc |-> "none"])
       IN  /\ all_pos_data' = st.apd
           /\ all_pos_counts' = st.apc
           /\ report' = Append(report, st.blocks)
           /\ IF st.exc = "none"
              THEN /\ pc' = "sec5"
                   /\ UNCHANGED exception
              ELSE /\ pc' = "aborted"
                   /\ exception' = st.exc
    /\ UNCHANGED << input, proj, locals, global_pos_counts, printed >>

\* Section 5; most_common(1)[0] of an empty Counter is an IndexError, raised
\* after the two totals are printed.
Sec5 ==
    /\ pc = "sec5"
    /\ IF MostCommon(global_pos_counts) = <<>>
       THEN /\ report' = Append(report,
                   [unique |-> Len(global_pos_counts),
                    total |-> SumValues(global_pos_counts)])
            /\ pc' = "aborted"
            /\ exception' = "IndexError"
       ELSE /\ report' = Append(report,
                   [unique |-> Len(global_pos_counts),
                    total |-> SumValues(global_pos_counts),
                    most_common |-> MostCommon(global_pos_counts)[1].k,
                    occurrences |-> MostCommon(global_pos_counts)[1].v,
                    projects |-> Len(ProjectOrder)])
            /\ pc' = "sec6"
            /\ UNCHANGED exception
    /\ UNCHANGED << input, proj, locals, aggregate, printed >>

\* The intersection that stops after the second project.
AllProjectPosFirstTwo(apc) ==
    KeySet(CountsOf(apc, "occasional-wotd")) \cap KeySet(CountsOf(apc, "wordbun"))

\* all_project_pos: the keys of the first project, intersected with those
\* of the two others.
AllProjectPos(apc) ==
    (KeySet(CountsOf(apc, "occasional-wotd")) \cap KeySet(CountsOf(apc, "wordbun")))
        \cap KeySet(CountsOf(apc, "wordbug"))

\* unique_pos of a project: its keys minus the keys of every other project.
UniquePos(apc, name) ==
    KeySet(CountsOf(apc, name))
        \ UNION {KeySet(CountsOf(apc, other)) : other \in Projects \ {name}}

\* The lines under "POS appearing in ALL projects".
SharedLines(apc) ==
    LET keys == Sorted(AllProjectPos(apc))
    IN  [i \in 1..Len(keys) |->
            [pos |-> keys[i],
             counts |-> [j \in 1..Len(ProjectOrder) |->
                            [project |-> ProjectOrder[j],
                             count |-> CounterGet(CountsOf(apc, ProjectOrder[j]), keys[i])]]]]

\* The "Unique to" blocks, for the projects that have one.
RECURSIVE UniqueBlocks(_, _)
UniqueBlocks(apc, names) ==
    IF names = <<>> THEN <<>>
    ELSE LET keys == Sorted(UniquePos(apc, Head(names)))
         IN  (IF keys # <<>>
              THEN <<[project |-> Head(names),
                      lines |-> [i \in 1..Len(keys) |->
                                    [pos |-> keys[i],
                                     count |-> CounterGet(CountsOf(apc, Head(names)), keys[i])]]]>>
              ELSE <<>>) \o UniqueBlocks(apc, Tail(names))

\* Section 6.
Sec6 ==
    /\ pc = "sec6"
    /\ report' = Append(report, [shared |-> SharedLines(all_pos_counts),
                                 unique |-> UniqueBlocks(all_pos_counts, ProjectOrder)])
    /\ all_pos_counts' = TouchCounts(all_pos_counts, ProjectOrder)
    /\ pc' = "done"
    /\ UNCHANGED << input, proj, locals, all_pos_data, global_pos_counts, printed,
                    exception >>

Next ==
    \/ MissingRoot
    \/ ListFiles
    \/ ReadFile
    \/ Return
    \/ Merge
    \/ Sec1
    \/ Sec2
    \/ Sec3
    \/ Sec4
    \/ Sec5
    \/ Sec6

Spec == Init /\ [][Next]_vars

SpecExamples == InitExamples /\ [][Next]_vars

(***************************************************************************)
(* Properties                                                              *)
(***************************************************************************)
Range(q) == {q[i] : i \in 1..Len(q)}

\* The projects whose loop iteration is complete.
Processed == {ProjectOrder[i] : i \in 1..(proj - 1)}

AllMissing == \A p \in Projects : root[p] = "missing"

\* C1: when every project root is missing, main prints one warning per
\* root and completes the report, whose summary shows zero definitions and
\* zero part-of-speech categories, without an unhandled error.
C1_AllRootsMissingCompletes ==
    (AllMissing /\ pc \in {"done", "aborted"}) =>
        /\ pc = "done"
        /\ exception = "none"
        /\ warnings = ProjectOrder
        /\ report[5].total = 0
        /\ report[5].unique = 0

\* The sum, over the first n projects, of a key's count in the project.
RECURSIVE SumOverProjects(_, _)
SumOverProjects(n, k) ==
    IF n = 0 THEN 0
    ELSE CounterGet(Get(all_pos_counts, ProjectOrder[n]), k) + SumOverProjects(n - 1, k)

ProjectKeys == UNION {KeySet(all_pos_counts[i].v) : i \in 1..Len(all_pos_counts)}

\* C2: after every prefix of the project loop, and through the report, the
\* global count of every key is the sum of the key's counts in the projects
\* processed so far, a key missing from a project counting 0.
C2_GlobalIsSumOfProjects ==
    (pc # "aborted") =>
        /\ KeySet(all_pos_counts) = Processed
        /\ KeySet(global_pos_counts) = ProjectKeys
        /\ \A k \in KeySet(global_pos_counts) \cup ProjectKeys :
              CounterGet(global_pos_counts, k) = SumOverProjects(proj - 1, k)

\* A key counted in two projects, after the last merge.
C2_Witness ==
    /\ pc = "done"
    /\ \E k \in KeySet(global_pos_counts) :
          /\ CounterGet(Get(all_pos_counts, "occasional-wotd"), k) >= 1
          /\ CounterGet(Get(all_pos_counts, "wordbug"), k) >= 2
          /\ ~Has(Get(all_pos_counts, "wordbun"), k)

\* An element that the specification counts: partOfSpeech is a string that
\* is not empty once trimmed.
Qualifies(e) == e.t = "object" /\ e.pos.t = "str" /\ Strip(e.pos.v) # <<>>

\* The records the specification expects of one file under key k.
ExpectedOfFile(f, path, k) ==
    LET hits == SelectSeq(f.data.items, LAMBDA e : Qualifies(e) /\ Strip(e.pos.v) = k)
    IN  [n \in 1..Len(hits) |-> <<WordOf(f), path>>]

\* The records the specification expects of the files i.. of a project.
RECURSIVE ExpectedRecords(_, _, _, _)
ExpectedRecords(files, i, pidx, k) ==
    IF i > Len(files) THEN <<>>
    ELSE ExpectedOfFile(files[i], <<pidx, i>>, k) \o ExpectedRecords(files, i + 1, pidx, k)

ExpectedKeys(files) ==
    {Strip(e.pos.v) : e \in {x \in UNION {Range(files[i].data.items) : i \in 1..Len(files)} :
                                 Qualifies(x)}}

\* C3: in analyze_project every element of a file's data list yields one
\* record exactly when its partOfSpeech is present and not empty after
\* trimming; the record carries the trimmed string and the file's word
\* ("unknown" when absent).  "Noun " is counted under "Noun", and a
\* partOfSpeech of whitespace only yields no record.
C3_RecordIffNonEmptyAfterTrim ==
    (pc \in {"files", "merge"}) =>
        LET files == tree[ProjectOrder[proj]]
        IN  /\ KeySet(pos_counts) = ExpectedKeys(files)
            /\ KeySet(pos_data) = ExpectedKeys(files)
            /\ \A k \in KeySet(pos_data) :
                  /\ Get(pos_data, k) = ExpectedRecords(files, 1, proj, k)
                  /\ CounterGet(pos_counts, k) = Len(ExpectedRecords(files, 1, proj, k))

\* The last file read in the current project.
LastRead == tree[ProjectOrder[proj]][Len(tree[ProjectOrder[proj]])]

\* A step that reads a file.
ReadsFile == pc = "files" /\ used' = used + 1

ParseFails(f) == f.io = "ok" /\ f.top = "invalid"

\* C4: reading a file that is not JSON adds no record to the project's
\* counts and examples, logs an error naming the file, and leaves the loop
\* at the next file, whatever the file's position; the data gathered from
\* the earlier files and projects is kept.
C4_ParseFailureIsSkipped ==
    [][(ReadsFile /\ ParseFails(LastRead')) =>
          /\ pos_counts' = pos_counts
          /\ pos_data' = pos_data
          /\ errors' = Append(errors, [file |-> <<proj, fidx>>, exc |-> "JSONDecodeError"])
          /\ pc' = "files"
          /\ fidx' = fidx + 1
          /\ exception' = "none"
          /\ UNCHANGED << proj, json_files, aggregate >>]_vars

\* A file that is not JSON, then a file of the same project and a later
\* project that both contribute, in a finished run.
C4_Witness ==
    /\ pc = "done"
    /\ tree["occasional-wotd"] = <<FileInvalid, FileNounVerb>>
    /\ tree["wordbug"] = <<FileVariants>>
    /\ Get(all_pos_counts, "occasional-wotd") # EmptyDict
    /\ Get(all_pos_counts, "wordbug") # EmptyDict
    /\ Len(errors) = 1

\* C5: no file aborts the run: a file that cannot be read or whose content
\* is not of the expected shape is logged with its path and skipped, the
\* loop goes on with the next file, and no error reaches the process.
C5_NoFileAbortsRun ==
    /\ (Len(report) = 0 => pc # "aborted")
    /\ exception \notin {"PermissionError", "UnicodeDecodeError", "AttributeError",
                         "TypeError"}
    /\ \A i \in 1..Len(ProjectOrder) :
          \A j \in 1..Len(tree[ProjectOrder[i]]) :
             LET f == tree[ProjectOrder[i]][j]
             IN  (f.io # "ok" \/ f.top # "object" \/ f.data.t = "null"
                    \/ \E e \in Range(f.data.items) :
                          e.t # "object" \/ e.pos.t \notin {"str", "absent", "null"})
                 => <<i, j>> \in {errors[n].file : n \in 1..Len(errors)}

\* analyze_project applied to the files i.. of project pidx, from st.
RECURSIVE AnalyzeTree(_, _, _, _)
AnalyzeTree(files, i, pidx, st) ==
    IF i > Len(files) THEN st
    ELSE LET r == ProcessFile(files[i], <<pidx, i>>, st.pos_data, st.pos_counts)
         IN  AnalyzeTree(files, i + 1, pidx, [r EXCEPT !.exc = "none"])

Alone(pidx) ==
    AnalyzeTree(tree[ProjectOrder[pidx]], 1, pidx,
                [pos_data |-> EmptyDict, pos_counts |-> EmptyDict, exc |-> "none"])

\* C6: a missing root gives a warning and an empty result for its project,
\* main goes on to the merge and to the other projects, the project adds
\* nothing to the global counts or to the examples, and what every project
\* contributes is what its own tree gives, a missing root giving what an
\* empty tree gives.
C6_MissingRootIsEmptyProject ==
    \A i \in 1..Len(ProjectOrder) :
       LET p == ProjectOrder[i]
       IN  /\ (root[p] = "missing") =>
                 /\ Cardinality({n \in 1..Len(warnings) : warnings[n] = p}) = 1
                 /\ tree[p] = <<>>
                 /\ (i = proj) => (pc = "merge" /\ pos_data = EmptyDict /\ pos_counts = EmptyDict)
                 /\ (i < proj) =>
                       /\ Get(all_pos_counts, p) = EmptyDict
                       /\ \A n \in 1..Len(all_pos_data) : ~Has(all_pos_data[n].v, p)
           /\ (i < proj /\ pc # "aborted") =>
                 LET alone == Alone(i)
                 IN  /\ Get(all_pos_counts, p) = alone.pos_counts
                     /\ \A n \in 1..Len(alone.pos_data) :
                           Get(Get(all_pos_data, alone.pos_data[n].k), p) = alone.pos_data[n].v
                     /\ \A n \in 1..Len(all_pos_data) :
                           Has(all_pos_data[n].v, p) => Has(alone.pos_data, all_pos_data[n].k)

\* The second root is missing and the report is finished with what the
\* first and the third project hold.
C6_Witness ==
    /\ pc = "done"
    /\ root["wordbun"] = "missing"
    /\ Get(all_pos_counts, "occasional-wotd") # EmptyDict
    /\ Get(all_pos_counts, "wordbug") # EmptyDict
    /\ warnings = <<"wordbun">>

\* The keys a project holds with a positive count.
KeysIn(p) ==
    LET counts == Get(all_pos_counts, p)
    IN  {counts[i].k : i \in {n \in 1..Len(counts) : counts[n].v > 0}}

\* A sequence of strings in strictly increasing order.
Increasing(q) == \A i \in 1..(Len(q) - 1) : StrLess(q[i], q[i + 1])

SharedPrinted == [i \in 1..Len(report[6].shared) |-> report[6].shared[i].pos]

\* The keys printed as unique to project p: those of its block, if any.
UniquePrinted(p) ==
    LET blocks == SelectSeq(report[6].unique, LAMBDA b : b.project = p)
    IN  IF blocks = <<>> THEN <<>>
        ELSE [i \in 1..Len(blocks[1].lines) |-> blocks[1].lines[i].pos]

\* C7: section 6 prints as shared exactly the keys present in all three
\* projects, in sorted order, each with its count in every project, and as
\* unique to a project exactly the keys of that project that no other
\* project has, in sorted order; the shared set and the unique sets are
\* pairwise disjoint; three projects holding only "noun" and "verb" give
\* the shared list noun, verb and no unique key.
C7_CrossProjectSets ==
    (Len(report) >= 6) =>
        /\ Range(SharedPrinted) = {k \in ProjectKeys : \A p \in Projects : k \in KeysIn(p)}
        /\ Increasing(SharedPrinted)
        /\ \A i \in 1..Len(report[6].shared) :
              /\ [j \in 1..Len(ProjectOrder) |-> report[6].shared[i].counts[j].project]
                    = ProjectOrder
              /\ \A j \in 1..Len(ProjectOrder) :
                    report[6].shared[i].counts[j].count
                       = Get(Get(all_pos_counts, ProjectOrder[j]), report[6].shared[i].pos)
        /\ \A p \in Projects :
              /\ Range(UniquePrinted(p))
                    = {k \in KeysIn(p) : \A q \in Projects \ {p} : k \notin KeysIn(q)}
              /\ Increasing(UniquePrinted(p))
              /\ Range(UniquePrinted(p)) \cap Range(SharedPrinted) = {}
              /\ \A q \in Projects \ {p} :
                    Range(UniquePrinted(p)) \cap Range(UniquePrinted(q)) = {}
              /\ Len(SelectSeq(report[6].unique, LAMBDA b : b.project = p)) <= 1
        /\ (\A p \in Projects : KeysIn(p) = {S_noun, S_verb}) =>
              /\ SharedPrinted = <<S_noun, S_verb>>
              /\ report[6].unique = <<>>

\* Three projects that each hold only "noun" and "verb".
C7_Witness ==
    /\ pc = "done"
    /\ \A p \in Projects : KeysIn(p) = {S_noun, S_verb}
    /\ Len(report[6].shared) = 2

\* The keys of a printed list of [pos, count] lines.
PosOf(lines) == {lines[i].pos : i \in 1..Len(lines)}

\* A key ends in '.' or ',' or has two spaces in a row.
BadFormat(k) ==
    \/ (k # <<>> /\ k[Len(k)] \in {".", ","})
    \/ \E i \in 1..(Len(k) - 1) : k[i] = " " /\ k[i + 1] = " "

\* The lower-cased key has one of the seven words as a substring.
HasSpecialWord(k) ==
    \E w \in Range(SpecializedWords) :
       \E i \in 1..Len(k) :
          /\ i + Len(w) - 1 <= Len(k)
          /\ \A j \in 1..Len(w) : LowerChar(k[i + j - 1]) = w[j]

\* A key flagged in section 3.
Flagged(k) ==
    k \in PosOf(report[3].formatting_issues) \cup PosOf(report[3].specialized_pos)

\* The two flags of section 3 are as the claim states them.
SectionThreeFlags ==
    /\ PosOf(report[3].formatting_issues) = {k \in KeySet(global_pos_counts) : BadFormat(k)}
    /\ PosOf(report[3].specialized_pos) = {k \in KeySet(global_pos_counts) : HasSpecialWord(k)}
    /\ Len(report[3].formatting_issues) = Cardinality(PosOf(report[3].formatting_issues))
    /\ Len(report[3].specialized_pos) = Cardinality(PosOf(report[3].specialized_pos))
    /\ \A i \in 1..Len(report[3].formatting_issues) :
          report[3].formatting_issues[i].count
             = Get(global_pos_counts, report[3].formatting_issues[i].pos)
    /\ \A i \in 1..Len(report[3].specialized_pos) :
          report[3].specialized_pos[i].count
             = Get(global_pos_counts, report[3].specialized_pos[i].pos)
    /\ (Has(global_pos_counts, S_nounDot) => S_nounDot \in PosOf(report[3].formatting_issues))
    /\ S_noun \notin PosOf(report[3].formatting_issues)
    /\ \A k \in {S_phrasalVerb, S_PhrasalVerb} :
          Has(global_pos_counts, k) => k \in PosOf(report[3].specialized_pos)

\* C8 as stated: the flags of section 3 are as described, and a flagged key
\* is present with its full count in every other section that lists keys:
\* sections 1, 2 (for the projects that hold it), 4 and 6.
C8_FlaggedKeyInEverySection ==
    (pc = "done") =>
        /\ SectionThreeFlags
        /\ \A k \in {x \in KeySet(global_pos_counts) : Flagged(x)} :
              /\ [k |-> k, v |-> Get(global_pos_counts, k)] \in Range(report[1].lines)
              /\ \A i \in 1..Len(ProjectOrder) :
                    k \in KeysIn(ProjectOrder[i]) =>
                       [k |-> k, v |-> Get(Get(all_pos_counts, ProjectOrder[i]), k)]
                          \in Range(report[2][i].lines)
              /\ \E b \in Range(report[4]) :
                    b.pos = k /\ b.count = Get(global_pos_counts, k)
              /\ \/ k \in Range(SharedPrinted)
                 \/ \E p \in Projects : k \in Range(UniquePrinted(p))

\* C8 amended: the flags of section 3 are as described, and a flagged key
\* is listed with its full global count in section 1, with its project
\* count in section 2 for every project that holds it, and in section 4
\* whenever it is among the TopN keys by count; section 6 lists it only
\* when all three projects hold it or exactly one does.
C8_FlagsAndListing ==
    (Len(report) >= 3) =>
        /\ SectionThreeFlags
        /\ \A k \in {x \in KeySet(global_pos_counts) : Flagged(x)} :
              /\ [k |-> k, v |-> Get(global_pos_counts, k)] \in Range(report[1].lines)
              /\ \A i \in 1..Len(ProjectOrder) :
                    k \in KeysIn(ProjectOrder[i]) =>
                       [k |-> k, v |-> Get(Get(all_pos_counts, ProjectOrder[i]), k)]
                          \in Range(report[2][i].lines)
              /\ (pc = "done" /\ Len(global_pos_counts) <= TopN) =>
                    \E b \in Range(report[4]) :
                       b.pos = k /\ b.count = Get(global_pos_counts, k)
              /\ (pc = "done") =>
                    ((k \in Range(SharedPrinted) \/ \E p \in Projects : k \in Range(UniquePrinted(p)))
                       <=> Cardinality({p \in Projects : k \in KeysIn(p)}) \in {1, 3})

\* "noun." and "Phrasal Verb" are flagged next to an unflagged "noun", and
\* "a  b," carries the formatting flag without the specialized one.
C8_Witness ==
    /\ pc = "done"
    /\ PosOf(report[3].formatting_issues) = {S_nounDot, S_twoSpaces}
    /\ PosOf(report[3].specialized_pos) = {S_PhrasalVerb, S_phrasalVerb}
    /\ Has(global_pos_counts, S_noun)
    /\ S_nounDot \in PosOf(report[4])

\* The words of the first SliceLen examples of key k in each project, the
\* projects in their fixed order.
RECURSIVE SliceWords(_, _)
SliceWords(k, j) ==
    IF j > Len(ProjectOrder) THEN <<>>
    ELSE LET byProject == Get(all_pos_data, k)
             entries   == IF Has(byProject, ProjectOrder[j])
                          THEN Get(byProject, ProjectOrder[j]) ELSE <<>>
         IN  [i \in 1..(IF Len(entries) < SliceLen THEN Len(entries) ELSE SliceLen) |->
                 entries[i][1].v] \o SliceWords(k, j + 1)

\* The words of a sequence that come before MaxExamples different words
\* have been seen.
FirstDistinct(q) ==
    {q[i] : i \in {n \in 1..Len(q) : Cardinality({q[m] : m \in 1..(n - 1)}) < MaxExamples}}

\* C9: section 4 has a block for each of the (at most TopN) keys of highest
\* global count; its examples are at most MaxExamples different words in
\* sorted order, each the word of one of the first SliceLen examples of
\* some project, taken in project order until MaxExamples words are found,
\* so that all of them are shown when there are no more than MaxExamples;
\* its project list names exactly the projects that count the key, in
\* order, each with its count.
C9_ExamplesAndProjects ==
    (Len(report) >= 4) =>
        /\ Len(report[4]) <= TopN
        /\ (pc # "aborted") =>
              [i \in 1..Len(report[4]) |-> [k |-> report[4][i].pos, v |-> report[4][i].count]]
                 = Take(MostCommon(global_pos_counts), TopN)
        /\ \A i \in 1..Len(report[4]) :
              LET b     == report[4][i]
                  words == SliceWords(b.pos, 1)
              IN  /\ b.count = Get(global_pos_counts, b.pos)
                  /\ \A n \in 1..Len(global_pos_counts) :
                        (global_pos_counts[n].k \notin PosOf(report[4]) /\ pc # "aborted")
                           => global_pos_counts[n].v <= b.count
                  /\ Len(b.examples) <= MaxExamples
                  /\ Increasing(b.examples)
                  /\ Range(b.examples) \subseteq Range(words)
                  /\ Range(b.examples) = FirstDistinct(words)
                  /\ (Cardinality(Range(words)) <= MaxExamples)
                        => Range(b.examples) = Range(words)
                  /\ b.projects
                        = SelectSeq([j \in 1..Len(ProjectOrder) |->
                                        [project |-> ProjectOrder[j],
                                         count |-> CounterGet(Get(all_pos_counts, ProjectOrder[j]), b.pos)]],
                                    LAMBDA x : x.count # 0)

\* A key whose slices hold more than MaxExamples different words over two
\* projects, of which MaxExamples are shown.
C9_Witness ==
    /\ pc = "done"
    /\ \E i \in 1..Len(report[4]) :
          /\ Has(Get(all_pos_data, report[4][i].pos), "occasional-wotd")
          /\ Len(Get(Get(all_pos_data, report[4][i].pos), "occasional-wotd")) = SliceLen
          /\ Cardinality(Range(SliceWords(report[4][i].pos, 1))) > MaxExamples
          /\ Len(report[4][i].examples) = MaxExamples
          /\ Len(report[4][i].projects) = 2
    /\ Len(report[4]) = 1

\* C10: from the end of the project loop on, through the six sections, the
\* aggregated state keeps its keys and values: no lookup inserts a key.
C10_ReportOnlyReads ==
    [][(pc \in {"sec1", "sec2", "sec3", "sec4", "sec5", "sec6", "done"})
          => UNCHANGED << all_pos_data, all_pos_counts, global_pos_counts >>]_vars

\* A finished report over a key that one project holds and another lacks.
C10_Witness ==
    /\ pc = "done"
    /\ \E n \in 1..Len(all_pos_data) :
          /\ Has(all_pos_data[n].v, "wordbun")
          /\ ~Has(all_pos_data[n].v, "occasional-wotd")
          /\ ~Has(Get(all_pos_counts, "wordbug"), all_pos_data[n].k)

====
